---- MODULE Spec2Model ----
(***************************************************************************)
(* Model of typein_tokenizer/tokenizer.py: the Commodore BASIC type-in     *)
(* tokenizer.  Text is a sequence of one-character strings; a byte is an   *)
(* integer.  The pure functions of the source are operators, main() and    *)
(* scan_manager() are stepped as actions.                                  *)
(***************************************************************************)
EXTENDS Integers, Sequences, FiniteSets, TLC

(***************************************************************************)
(* ("grave" names code point 96, which the TLA+ lexer cannot quote.)        *)
(* ("grave" names code point 96, which the lexer of TLA+ cannot quote.)       *)
(***************************************************************************)
Ascii ==
  << " ", "!", "\"", "#", "$", "%", "&", "'", "(", ")", "*", "+", ",", "-", ".", "/",
     "0", "1", "2", "3", "4", "5", "6", "7", "8", "9", ":", ";", "<", "=", ">", "?",
     "@", "A", "B", "C", "D", "E", "F", "G", "H", "I", "J", "K", "L", "M", "N", "O",
     "P", "Q", "R", "S", "T", "U", "V", "W", "X", "Y", "Z", "[", "\\", "]", "^", "_",
     "grave", "a", "b", "c", "d", "e", "f", "g", "h", "i", "j", "k", "l", "m", "n", "o",
     "p", "q", "r", "s", "t", "u", "v", "w", "x", "y", "z", "{", "|", "}", "~" >>

\* dictionary for special character conversion from ahoy to petcat
AHOY_TO_PETCAT ==
  <<
     [key |-> <<"{","S","C","}">>, val |-> <<"{","c","l","r","}">>],
     [key |-> <<"{","H","M","}">>, val |-> <<"{","h","o","m","e","}">>],
     [key |-> <<"{","C","U","}">>, val |-> <<"{","u","p","}">>],
     [key |-> <<"{","C","D","}">>, val |-> <<"{","d","o","w","n","}">>],
     [key |-> <<"{","C","L","}">>, val |-> <<"{","l","e","f","t","}">>],
     [key |-> <<"{","C","R","}">>, val |-> <<"{","r","g","h","t","}">>],
     [key |-> <<"{","S","S","}">>, val |-> <<"{","$","a","0","}">>],
     [key |-> <<"{","I","N","}">>, val |-> <<"{","i","n","s","t","}">>],
     [key |-> <<"{","R","V","}">>, val |-> <<"{","r","v","o","n","}">>],
     [key |-> <<"{","R","O","}">>, val |-> <<"{","r","v","o","f","}">>],
     [key |-> <<"{","B","K","}">>, val |-> <<"{","b","l","k","}">>],
     [key |-> <<"{","W","H","}">>, val |-> <<"{","w","h","t","}">>],
     [key |-> <<"{","R","D","}">>, val |-> <<"{","r","e","d","}">>],
     [key |-> <<"{","C","Y","}">>, val |-> <<"{","c","y","n","}">>],
     [key |-> <<"{","P","U","}">>, val |-> <<"{","p","u","r","}">>],
     [key |-> <<"{","G","N","}">>, val |-> <<"{","g","r","n","}">>],
     [key |-> <<"{","B","L","}">>, val |-> <<"{","b","l","u","}">>],
     [key |-> <<"{","Y","L","}">>, val |-> <<"{","y","e","l","}">>],
     [key |-> <<"{","O","R","}">>, val |-> <<"{","o","r","n","g","}">>],
     [key |-> <<"{","B","R","}">>, val |-> <<"{","b","r","n","}">>],
     [key |-> <<"{","L","R","}">>, val |-> <<"{","l","r","e","d","}">>],
     [key |-> <<"{","G","1","}">>, val |-> <<"{","g","r","y","1","}">>],
     [key |-> <<"{","G","2","}">>, val |-> <<"{","g","r","y","2","}">>],
     [key |-> <<"{","L","G","}">>, val |-> <<"{","l","g","r","n","}">>],
     [key |-> <<"{","L","B","}">>, val |-> <<"{","l","b","l","u","}">>],
     [key |-> <<"{","G","3","}">>, val |-> <<"{","g","r","y","3","}">>],
     [key |-> <<"{","F","1","}">>, val |-> <<"{","f","1","}">>],
     [key |-> <<"{","F","2","}">>, val |-> <<"{","f","2","}">>],
     [key |-> <<"{","F","3","}">>, val |-> <<"{","f","3","}">>],
     [key |-> <<"{","F","4","}">>, val |-> <<"{","f","4","}">>],
     [key |-> <<"{","F","5","}">>, val |-> <<"{","f","5","}">>],
     [key |-> <<"{","F","6","}">>, val |-> <<"{","f","6","}">>],
     [key |-> <<"{","F","7","}">>, val |-> <<"{","f","7","}">>],
     [key |-> <<"{","F","8","}">>, val |-> <<"{","f","8","}">>]
  >>

\* core Commodore BASIC tokens
CORE_TOKENS ==
  <<
     [token |-> <<"e","n","d">>, value |-> 128],
     [token |-> <<"f","o","r">>, value |-> 129],
     [token |-> <<"n","e","x","t">>, value |-> 130],
     [token |-> <<"d","a","t","a">>, value |-> 131],
     [token |-> <<"i","n","p","u","t","#">>, value |-> 132],
     [token |-> <<"i","n","p","u","t">>, value |-> 133],
     [token |-> <<"d","i","m">>, value |-> 134],
     [token |-> <<"r","e","a","d">>, value |-> 135],
     [token |-> <<"l","e","t">>, value |-> 136],
     [token |-> <<"g","o","t","o">>, value |-> 137],
     [token |-> <<"r","u","n">>, value |-> 138],
     [token |-> <<"i","f">>, value |-> 139],
     [token |-> <<"r","e","s","t","o","r","e">>, value |-> 140],
     [token |-> <<"g","o","s","u","b">>, value |-> 141],
     [token |-> <<"r","e","t","u","r","n">>, value |-> 142],
     [token |-> <<"r","e","m">>, value |-> 143],
     [token |-> <<"s","t","o","p">>, value |-> 144],
     [token |-> <<"o","n">>, value |-> 145],
     [token |-> <<"w","a","i","t">>, value |-> 146],
     [token |-> <<"l","o","a","d">>, value |-> 147],
     [token |-> <<"s","a","v","e">>, value |-> 148],
     [token |-> <<"v","e","r","i","f","y">>, value |-> 149],
     [token |-> <<"d","e","f">>, value |-> 150],
     [token |-> <<"p","o","k","e">>, value |-> 151],
     [token |-> <<"p","r","i","n","t","#">>, value |-> 152],
     [token |-> <<"p","r","i","n","t">>, value |-> 153],
     [token |-> <<"c","o","n","t">>, value |-> 154],
     [token |-> <<"l","i","s","t">>, value |-> 155],
     [token |-> <<"c","l","r">>, value |-> 156],
     [token |-> <<"c","m","d">>, value |-> 157],
     [token |-> <<"s","y","s">>, value |-> 158],
     [token |-> <<"o","p","e","n">>, value |-> 159],
     [token |-> <<"c","l","o","s","e">>, value |-> 160],
     [token |-> <<"g","e","t">>, value |-> 161],
     [token |-> <<"n","e","w">>, value |-> 162],
     [token |-> <<"t","a","b","(">>, value |-> 163],
     [token |-> <<"t","o">>, value |-> 164],
     [token |-> <<"f","n">>, value |-> 165],
     [token |-> <<"s","p","c","(">>, value |-> 166],
     [token |-> <<"t","h","e","n">>, value |-> 167],
     [token |-> <<"n","o","t">>, value |-> 168],
     [token |-> <<"s","t","e","p">>, value |-> 169],
     [token |-> <<"+">>, value |-> 170],
     [token |-> <<"-">>, value |-> 171],
     [token |-> <<"*">>, value |-> 172],
     [token |-> <<"/">>, value |-> 173],
     [token |-> <<"^">>, value |-> 174],
     [token |-> <<"a","n","d">>, value |-> 175],
     [token |-> <<"o","r">>, value |-> 176],
     [token |-> <<">">>, value |-> 177],
     [token |-> <<"=">>, value |-> 178],
     [token |-> <<"<">>, value |-> 179],
     [token |-> <<"s","g","n">>, value |-> 180],
     [token |-> <<"i","n","t">>, value |-> 181],
     [token |-> <<"a","b","s">>, value |-> 182],
     [token |-> <<"u","s","r">>, value |-> 183],
     [token |-> <<"f","r","e">>, value |-> 184],
     [token |-> <<"p","o","s">>, value |-> 185],
     [token |-> <<"s","q","r">>, value |-> 186],
     [token |-> <<"r","n","d">>, value |-> 187],
     [token |-> <<"l","o","g">>, value |-> 188],
     [token |-> <<"e","x","p">>, value |-> 189],
     [token |-> <<"c","o","s">>, value |-> 190],
     [token |-> <<"s","i","n">>, value |-> 191],
     [token |-> <<"t","a","n">>, value |-> 192],
     [token |-> <<"a","t","n">>, value |-> 193],
     [token |-> <<"p","e","e","k">>, value |-> 194],
     [token |-> <<"l","e","n">>, value |-> 195],
     [token |-> <<"s","t","r","$">>, value |-> 196],
     [token |-> <<"v","a","l">>, value |-> 197],
     [token |-> <<"a","s","c">>, value |-> 198],
     [token |-> <<"c","h","r","$">>, value |-> 199],
     [token |-> <<"l","e","f","t","$">>, value |-> 200],
     [token |-> <<"r","i","g","h","t","$">>, value |-> 201],
     [token |-> <<"m","i","d","$">>, value |-> 202],
     [token |-> <<"g","o">>, value |-> 203]
  >>

\* tokens for special character designations used by petcat
PETCAT_TOKENS ==
  <<
     [token |-> <<"{","c","l","r","}">>, value |-> 147],
     [token |-> <<"{","h","o","m","e","}">>, value |-> 19],
     [token |-> <<"{","u","p","}">>, value |-> 145],
     [token |-> <<"{","d","o","w","n","}">>, value |-> 17],
     [token |-> <<"{","l","e","f","t","}">>, value |-> 157],
     [token |-> <<"{","r","g","h","t","}">>, value |-> 29],
     [token |-> <<"{","$","a","0","}">>, value |-> 160],
     [token |-> <<"{","i","n","s","t","}">>, value |-> 148],
     [token |-> <<"{","r","v","o","n","}">>, value |-> 18],
     [token |-> <<"{","r","v","o","f","}">>, value |-> 146],
     [token |-> <<"{","b","l","k","}">>, value |-> 144],
     [token |-> <<"{","w","h","t","}">>, value |-> 5],
     [token |-> <<"{","r","e","d","}">>, value |-> 28],
     [token |-> <<"{","c","y","n","}">>, value |-> 159],
     [token |-> <<"{","p","u","r","}">>, value |-> 156],
     [token |-> <<"{","g","r","n","}">>, value |-> 30],
     [token |-> <<"{","b","l","u","}">>, value |-> 31],
     [token |-> <<"{","y","e","l","}">>, value |-> 158],
     [token |-> <<"{","o","r","n","g","}">>, value |-> 129],
     [token |-> <<"{","b","r","n","}">>, value |-> 149],
     [token |-> <<"{","l","r","e","d","}">>, value |-> 150],
     [token |-> <<"{","g","r","y","1","}">>, value |-> 151],
     [token |-> <<"{","g","r","y","2","}">>, value |-> 152],
     [token |-> <<"{","l","g","r","n","}">>, value |-> 153],
     [token |-> <<"{","l","b","l","u","}">>, value |-> 154],
     [token |-> <<"{","g","r","y","3","}">>, value |-> 155],
     [token |-> <<"{","f","1","}">>, value |-> 133],
     [token |-> <<"{","f","2","}">>, value |-> 134],
     [token |-> <<"{","f","3","}">>, value |-> 135],
     [token |-> <<"{","f","4","}">>, value |-> 136],
     [token |-> <<"{","f","5","}">>, value |-> 137],
     [token |-> <<"{","f","6","}">>, value |-> 138],
     [token |-> <<"{","f","7","}">>, value |-> 139],
     [token |-> <<"{","f","8","}">>, value |-> 140]
  >>

OrdTable == [c \in {Ascii[i] : i \in 1..Len(Ascii)} |->
               31 + (CHOOSE i \in 1..Len(Ascii) : Ascii[i] = c)]

\* Python ord() and chr() on printable ASCII
ord(c) == OrdTable[c]

chr(n) == Ascii[n - 31]

\* str.isdigit() on ASCII
isdigit(c) == c \in {"0", "1", "2", "3", "4", "5", "6", "7", "8", "9"}

\* the characters str.lstrip() removes (of the printable range: the space)
isspace(c) == c = " "

\* the regular expression class \w on ASCII
IsWordChar(c) == \/ ord(c) \in 97..122
                 \/ ord(c) \in 65..90
                 \/ isdigit(c)
                 \/ c = "_"

\* str.upper()
upper(s) == [i \in 1..Len(s) |->
               IF ord(s[i]) \in 97..122 THEN chr(ord(s[i]) - 32) ELSE s[i]]

\* str.startswith()
startswith(ln, token) ==
  /\ Len(token) <= Len(ln)
  /\ SubSeq(ln, 1, Len(token)) = token

\* str.lstrip()
RECURSIVE lstrip(_)
lstrip(s) == IF s # <<>> /\ isspace(s[1]) THEN lstrip(Tail(s)) ELSE s

\* str.join() with the empty separator
RECURSIVE join(_)
join(parts) == IF parts = <<>> THEN <<>> ELSE parts[1] \o join(Tail(parts))

\* CanToBytes2 that lets every value through
CanToBytes2_any(n) == TRUE

\* int.to_bytes(2, little): defined for 0..65535, OverflowError otherwise
CanToBytes2(n) == n \in 0..65535

to_bytes2(n) == <<n % 256, n \div 256>>

(***************************************************************************)
(* ahoy_lines_list: convert ahoy special characters to petcat ones.        *)
(***************************************************************************)

\* the pattern \{\w{2}\} matches at position i of line
MatchAt(line, i) ==
  /\ i + 3 <= Len(line)
  /\ line[i] = "{"
  /\ IsWordChar(line[i + 1])
  /\ IsWordChar(line[i + 2])
  /\ line[i + 3] = "}"

\* re.split(pattern, line): the text between the leftmost non-overlapping
\* matches, scanning from position i with the current piece begun at start
RECURSIVE SplitFrom(_, _, _)
SplitFrom(line, i, start) ==
  IF i > Len(line) THEN <<SubSeq(line, start, Len(line))>>
  ELSE IF MatchAt(line, i)
       THEN <<SubSeq(line, start, i - 1)>> \o SplitFrom(line, i + 4, i + 4)
       ELSE SplitFrom(line, i + 1, start)

re_split(line) == SplitFrom(line, 1, 1)

\* re.findall(pattern, line): the matches themselves, in order
RECURSIVE FindFrom(_, _)
FindFrom(line, i) ==
  IF i > Len(line) THEN <<>>
  ELSE IF MatchAt(line, i)
       THEN <<SubSeq(line, i, i + 3)>> \o FindFrom(line, i + 4)
       ELSE FindFrom(line, i + 1)

re_findall(line) == FindFrom(line, 1)

\* loose_brace with a pattern that searches the closing brace alone
loose_brace_close_only(sub_str) ==
  \E i \in 1..Len(sub_str) : sub_str[i] = "}"

\* re.search of a brace in sub_str finds one
loose_brace(sub_str) ==
  \E i \in 1..Len(sub_str) : sub_str[i] \in {"{", "}"}

\* item in AHOY_TO_PETCAT, and AHOY_TO_PETCAT[item]
HasKey(item) == \E i \in 1..Len(AHOY_TO_PETCAT) : AHOY_TO_PETCAT[i].key = item

Lookup(item) ==
  AHOY_TO_PETCAT[CHOOSE i \in 1..Len(AHOY_TO_PETCAT) :
                   AHOY_TO_PETCAT[i].key = item].val

\* new_codes_of without the trailing empty string
new_codes_of_no_tail(code_split) ==
  [j \in 1..Len(code_split) |-> Lookup(upper(code_split[j]))]

\* the new_codes list of one line, the trailing empty string included
new_codes_of(code_split) ==
  LET codes == [j \in 1..Len(code_split) |-> Lookup(upper(code_split[j]))]
  IN  IF codes # <<>> THEN Append(codes, <<>>) ELSE codes

\* new_line_of without the interleaved codes
new_line_of_segments_only(str_split, new_codes) == join(str_split)

\* the joined new_line of one line
new_line_of(str_split, new_codes) ==
  IF new_codes # <<>>
  THEN join([count \in 1..Len(new_codes) |->
               str_split[count] \o new_codes[count]])
  ELSE join(str_split)

\* The loop over lines_list from line i on.  The result is the list of new
\* lines (kind "list"), the tuple (None, line) of the loose brace return
\* (kind "tuple"), or the KeyError the dictionary lookup raises.
RECURSIVE ahoy_loop(_, _, _)
ahoy_loop(lines, i, new_lines) ==
  IF i > Len(lines) THEN [kind |-> "list", lines |-> new_lines, line |-> <<>>]
  ELSE LET line == lines[i]
           str_split == re_split(line)
           code_split == re_findall(line)
       IN  IF \E j \in 1..Len(str_split) : loose_brace(str_split[j])
           THEN [kind |-> "tuple", lines |-> <<>>, line |-> line]
           ELSE IF \E j \in 1..Len(code_split) : ~HasKey(upper(code_split[j]))
           THEN [kind |-> "KeyError", lines |-> <<>>, line |-> line]
           ELSE ahoy_loop(lines, i + 1,
                          Append(new_lines,
                                 new_line_of(str_split, new_codes_of(code_split))))

ahoy_lines_list(lines) == ahoy_loop(lines, 1, <<>>)

(***************************************************************************)
(* split_line_num: split a line into line number and remaining line.       *)
(***************************************************************************)

\* the leading run of digits of s
RECURSIVE digits_of(_)
digits_of(s) ==
  IF s # <<>> /\ isdigit(s[1]) THEN <<s[1]>> \o digits_of(Tail(s)) ELSE <<>>

\* int() of a non-empty string of decimal digits
RECURSIVE int_of(_)
int_of(acc) ==
  IF acc = <<>> THEN 0
  ELSE 10 * int_of(SubSeq(acc, 1, Len(acc) - 1)) + (ord(acc[Len(acc)]) - 48)

\* int() raises ValueError on the empty string
split_line_num(line) ==
  LET stripped == lstrip(line)
      acc == digits_of(stripped)
      rest == SubSeq(stripped, Len(acc) + 1, Len(stripped))
  IN  IF acc = <<>>
      THEN [kind |-> "ValueError", line_num |-> 0, line_txt |-> <<>>]
      ELSE [kind |-> "ok", line_num |-> int_of(acc), line_txt |-> lstrip(rest)]

(***************************************************************************)
(* read_file: the non-blank lines of the file, right-stripped, lowercase.  *)
(***************************************************************************)

\* str.lower()
lower(s) == [i \in 1..Len(s) |->
               IF ord(s[i]) \in 65..90 THEN chr(ord(s[i]) + 32) ELSE s[i]]

\* str.rstrip()
RECURSIVE rstrip(_)
rstrip(s) ==
  IF s # <<>> /\ isspace(s[Len(s)]) THEN rstrip(SubSeq(s, 1, Len(s) - 1)) ELSE s

RECURSIVE read_file(_)
read_file(lines) ==
  IF lines = <<>> THEN <<>>
  ELSE IF rstrip(lines[1]) = <<>>
       THEN read_file(Tail(lines))
       ELSE <<lower(rstrip(lines[1]))>> \o read_file(Tail(lines))

(***************************************************************************)
(* The state of one run of main().                                         *)
(***************************************************************************)
VARIABLES
  file,        \* the lines of the input file, as stored on disk
  source,      \* args.source[0]
  version,     \* args.version[0]
  load_addr,   \* int(args.loadaddr[0], 16)
  pc,          \* the statement of main() that runs next
  TOKENS,      \* the module global: "undefined" until main() assigns it
  lines_list,  \* main(): lines_list
  bas_file,    \* the .bas file as this run wrote it
  prg_file,    \* the .prg file as this run wrote it
  addr,        \* main(): addr, the running address
  out_list,    \* main(): out_list
  idx,         \* position of the for loop of main() in lines_list
  line_num,    \* main(): line_num of the current line
  token_ln,    \* main(): token_ln of the current line
  ln,          \* scan_manager(): the text still to scan
  in_quotes,   \* scan_manager(): in_quotes
  in_remark,   \* scan_manager(): in_remark
  bytes,       \* scan_manager(): bytes
  err,         \* how the run ended, "" while it has not failed
  err_line     \* the line the loose brace message prints

vars == <<file, source, version, load_addr, pc, TOKENS, lines_list, bas_file,
          prg_file, addr, out_list, idx, line_num, token_ln, ln, in_quotes,
          in_remark, bytes, err, err_line>>

(***************************************************************************)
(* scan: convert the head of a line segment to one byte.                   *)
(***************************************************************************)

\* the table the global TOKENS is bound to
TokenTable(name) == IF name = "CORE_TOKENS" THEN CORE_TOKENS ELSE <<>>

\* the last entry of table, in declaration order, that s starts with (0: none)
FirstMatch_last(table, s) ==
  LET hits == {i \in 1..Len(table) : startswith(s, table[i].token)}
  IN  IF hits = {} THEN 0 ELSE CHOOSE i \in hits : \A j \in hits : i >= j

\* the first entry of table, in declaration order, that s starts with (0: none)
FirstMatch(table, s) ==
  LET hits == {i \in 1..Len(table) : startswith(s, table[i].token)}
  IN  IF hits = {} THEN 0 ELSE CHOOSE i \in hits : \A j \in hits : i <= j

\* the literal branch without the folding of letters
char_val_of_unfolded(c) == ord(c)

\* the literal branch: one character, lowercase letters folded to uppercase
char_val_of(c) == IF ord(c) >= 97 /\ ord(c) <= 122 THEN ord(c) - 32 ELSE ord(c)

\* scan with the mnemonic table tried only when tokenize is set
scan_gated(s, tokenize, tokens) ==
  LET p == IF tokenize THEN FirstMatch(PETCAT_TOKENS, s) ELSE 0
      t == FirstMatch(TokenTable(tokens), s)
  IN  IF p # 0
      THEN [kind |-> "ok", byte |-> PETCAT_TOKENS[p].value,
            rest |-> SubSeq(s, Len(PETCAT_TOKENS[p].token) + 1, Len(s))]
      ELSE IF tokenize /\ tokens = "undefined"
      THEN [kind |-> "NameError", byte |-> 0, rest |-> s]
      ELSE IF tokenize /\ t # 0
      THEN [kind |-> "ok", byte |-> TokenTable(tokens)[t].value,
            rest |-> SubSeq(s, Len(TokenTable(tokens)[t].token) + 1, Len(s))]
      ELSE [kind |-> "ok", byte |-> char_val_of(s[1]), rest |-> Tail(s)]

\* scan(ln, tokenize) on the text s, with the global TOKENS bound as tokens;
\* reading the unbound global raises NameError
scan(s, tokenize, tokens) ==
  LET p == FirstMatch(PETCAT_TOKENS, s)
      t == FirstMatch(TokenTable(tokens), s)
  IN  IF p # 0
      THEN [kind |-> "ok", byte |-> PETCAT_TOKENS[p].value,
            rest |-> SubSeq(s, Len(PETCAT_TOKENS[p].token) + 1, Len(s))]
      ELSE IF tokenize /\ tokens = "undefined"
      THEN [kind |-> "NameError", byte |-> 0, rest |-> s]
      ELSE IF tokenize /\ t # 0
      THEN [kind |-> "ok", byte |-> TokenTable(tokens)[t].value,
            rest |-> SubSeq(s, Len(TokenTable(tokens)[t].token) + 1, Len(s))]
      ELSE [kind |-> "ok", byte |-> char_val_of(s[1]), rest |-> Tail(s)]

(***************************************************************************)
(* The inputs: the files, arguments and answers the runs are checked on.   *)
(***************************************************************************)
MaxLines == 2

MaxFrags == 3

LongLen == 553

\* the choices of --version and of --source
Versions == {"1", "2", "3", "4", "7"}

Sources == {"pet", "ahoy"}

\* the default load address 0x0801, one a few lines below the 16 bit limit,
\* and one beyond it
LoadAddrs == {2049, 65525, 65536}

\* what the user may type at an overwrite prompt
Answers == {"y", "Y", "n"}

\* every sequence over S of length at most n
SeqsUpTo(S, n) == UNION {[1..m -> S] : m \in 0..n}

\* lines of a magazine listing: a remark, a mnemonic, a loose brace, an
\* unknown mnemonic, a loose brace before a mnemonic, a line without number,
\* a line number beyond 16 bits, and a blank line
SmallLines ==
  { <<"1", "r", "e", "m">>,
    <<"2", "{", "C", "L", "}">>,
    <<"{">>,
    <<"3", "{", "Z", "Z", "}">>,
    <<"4", "}", "{", "C", "L", "}">>,
    <<"a">>,
    <<"7", "0", "0", "0", "0">>,
    <<" ">>,
    <<"5", "\"">> }

SmallFiles == SeqsUpTo(SmallLines, MaxLines)

\* statement texts built of the keywords rem and print, the double quote and
\* one control mnemonic, in the spelling of the source format
Frags == {"rem", "quote", "mnemonic", "print"}

FragText(f, m, src) ==
  CASE f = "rem" -> <<"r", "e", "m">>
    [] f = "quote" -> <<"\"">>
    [] f = "print" -> <<"p", "r", "i", "n", "t">>
    [] f = "mnemonic" -> IF src = "ahoy" THEN AHOY_TO_PETCAT[m].key
                         ELSE AHOY_TO_PETCAT[m].val

\* the mnemonics the texts of a source format are built with: every entry
\* of the translation table for ahoy, three canonical ones for pet
MnemonicsOf(src) ==
  IF src = "ahoy" THEN 1..Len(AHOY_TO_PETCAT) ELSE {1, 5, 7}

TextLines(src) ==
  { <<"1">> \o join([j \in 1..Len(p) |-> FragText(p[j], m, src)]) :
      p \in SeqsUpTo(Frags, MaxFrags), m \in MnemonicsOf(src) }

\* one line for every entry of the keyword table: the keyword alone
KeywordLines ==
  { <<"1">> \o CORE_TOKENS[i].token : i \in 1..Len(CORE_TOKENS) }

\* the line  10 print "hi"
ExampleLine ==
  <<"1", "0", " ", "p", "r", "i", "n", "t", " ", "\"", "h", "i", "\"">>

\* the line  1"+print{clr}"+print : an operator, a keyword and a mnemonic
\* inside a string, an operator and a keyword after it
QuotedLine ==
  <<"1", "\"", "+", "p", "r", "i", "n", "t", "{", "c", "l", "r", "}", "\"",
    "+", "p", "r", "i", "n", "t">>

\* a line long enough for the flat list to reach index 561
LongLine == <<"1">> \o [j \in 1..LongLen |-> "a"]

(***************************************************************************)
(* main()                                                                  *)
(***************************************************************************)
Init ==
  /\ \/ /\ file \in SmallFiles
        /\ source \in Sources
        /\ \/ version = "2" /\ load_addr \in LoadAddrs
           \/ version \in Versions /\ load_addr = 2049
     \/ /\ source \in Sources
        /\ file \in {<<l>> : l \in TextLines(source)}
        /\ version = "2"
        /\ load_addr = 2049
     \/ /\ file \in {<<l>> : l \in KeywordLines \cup {ExampleLine, QuotedLine, LongLine}}
        /\ source = "pet"
        /\ version = "2"
        /\ load_addr = 2049
  /\ pc = "read_file"
  /\ TOKENS = "undefined"
  /\ lines_list = <<>>
  /\ bas_file = [written |-> FALSE, lines |-> <<>>]
  /\ prg_file = [written |-> FALSE, data |-> <<>>]
  /\ addr = 0
  /\ out_list = <<>>
  /\ idx = 0
  /\ line_num = 0
  /\ token_ln = <<>>
  /\ ln = <<>>
  /\ in_quotes = FALSE
  /\ in_remark = FALSE
  /\ bytes = <<>>
  /\ err = ""
  /\ err_line = <<>>

args == <<file, source, version, load_addr>>

locals == <<addr, out_list, idx, line_num, token_ln>>

scanner == <<ln, in_quotes, in_remark, bytes>>

\* the run ends with the error e (sys.exit(1) or an uncaught exception)
Fail(e) == pc' = "failed" /\ err' = e

\* lines 315-320: read the input file
ReadFile ==
  /\ pc = "read_file"
  /\ \E readable \in BOOLEAN :
       IF readable
       THEN /\ lines_list' = read_file(file)
            /\ pc' = "normalize"
            /\ err' = err
       ELSE /\ Fail("IOError")
            /\ lines_list' = lines_list
  /\ UNCHANGED <<args, TOKENS, bas_file, prg_file, locals, scanner, err_line>>

\* lines 322-331: convert to petcat format
Normalize ==
  /\ pc = "normalize"
  /\ IF source = "ahoy"
     THEN LET r == ahoy_lines_list(lines_list)
          IN  CASE r.kind = "KeyError" ->
                     /\ Fail("KeyError")
                     /\ UNCHANGED <<lines_list, err_line>>
                [] r.kind = "tuple" ->
                     /\ Fail("LooseBrace")
                     /\ err_line' = r.line
                     /\ lines_list' = lines_list
                [] r.kind = "list" /\ r.lines = <<>> ->
                     /\ Fail("IndexError")
                     /\ UNCHANGED <<lines_list, err_line>>
                [] OTHER ->
                     /\ lines_list' = r.lines
                     /\ pc' = "write_bas"
                     /\ UNCHANGED <<err, err_line>>
     ELSE /\ pc' = "write_bas"
          /\ UNCHANGED <<lines_list, err, err_line>>
  /\ UNCHANGED <<args, TOKENS, bas_file, prg_file, locals, scanner>>

\* the answer at an overwrite prompt counts as yes
IsYes(answer) == lower(<<answer>>) = <<"y">>

\* lines 333-344: write the petcat-ready file
WriteBas ==
  /\ pc = "write_bas"
  /\ \E exists \in BOOLEAN, answer \in Answers :
       IF ~exists \/ IsYes(answer)
       THEN /\ bas_file' = [written |-> TRUE, lines |-> lines_list]
            /\ pc' = "select_tokens"
            /\ err' = err
       ELSE /\ Fail("NotOverwritten")
            /\ bas_file' = bas_file
  /\ UNCHANGED <<args, TOKENS, lines_list, prg_file, locals, scanner, err_line>>

\* lines 346-352: configure TOKENS, initialise the address and the output
SelectTokens ==
  /\ pc = "select_tokens"
  /\ TOKENS' = IF version = "2" THEN "CORE_TOKENS" ELSE TOKENS
  /\ addr' = load_addr
  /\ out_list' = <<>>
  /\ idx' = 1
  /\ pc' = "loop"
  /\ UNCHANGED <<args, lines_list, bas_file, prg_file, line_num, token_ln,
                 scanner, err, err_line>>

\* is_first_line with the comparison loosened
is_first_line_at_least(a, load) == a >= load

\* line 360: the test that guards the load address header
is_first_line(a, load) == a = load

\* the flags of the line before, carried over
scan_manager_start_carried == [in_quotes |-> in_quotes, in_remark |-> in_remark]

\* lines 279-280: the flags scan_manager starts a line with
scan_manager_start == [in_quotes |-> FALSE, in_remark |-> FALSE]

\* lines 354-363: the head of the loop body: split the line, start token_ln
\* with the load address on the first line, enter scan_manager
LineStart ==
  /\ pc = "loop"
  /\ idx <= Len(lines_list)
  /\ LET s == split_line_num(lines_list[idx])
     IN  IF s.kind = "ValueError"
         THEN /\ Fail("ValueError")
              /\ UNCHANGED <<line_num, token_ln, scanner>>
         ELSE IF is_first_line(addr, load_addr) /\ ~CanToBytes2(addr)
         THEN /\ Fail("OverflowError")
              /\ line_num' = s.line_num
              /\ UNCHANGED <<token_ln, scanner>>
         ELSE /\ line_num' = s.line_num
              /\ token_ln' = IF is_first_line(addr, load_addr)
                             THEN to_bytes2(addr) ELSE <<>>
              /\ ln' = s.line_txt
              /\ in_quotes' = scan_manager_start.in_quotes
              /\ in_remark' = scan_manager_start.in_remark
              /\ bytes' = <<>>
              /\ pc' = "scan"
              /\ err' = err
  /\ UNCHANGED <<args, TOKENS, lines_list, bas_file, prg_file, addr, out_list,
                 idx, err_line>>

\* tokenize_of without the quote flag
tokenize_of_remark_only(quotes, remark) == ~remark

\* tokenize_of without the remark flag
tokenize_of_quotes_only(quotes, remark) == ~quotes

\* line 284: whether scan may match the keyword table
tokenize_of(quotes, remark) == ~(quotes \/ remark)

\* quotes_after that sets the flag and never clears it
quotes_after_set_only(quotes, byte) == IF byte = ord("\"") THEN TRUE ELSE quotes

\* lines 286-287 and 288-289: the flags after a byte
quotes_after(quotes, byte) == IF byte = ord("\"") THEN ~quotes ELSE quotes

remark_after(remark, byte) == IF byte = 143 THEN TRUE ELSE remark

\* lines 283-289: one round of the while loop of scan_manager
ScanStep ==
  /\ pc = "scan"
  /\ ln # <<>>
  /\ LET r == scan(ln, tokenize_of(in_quotes, in_remark), TOKENS)
     IN  IF r.kind = "NameError"
         THEN /\ Fail("NameError")
              /\ UNCHANGED scanner
         ELSE /\ ln' = r.rest
              /\ bytes' = Append(bytes, r.byte)
              /\ in_quotes' = quotes_after(in_quotes, r.byte)
              /\ in_remark' = remark_after(in_remark, r.byte)
              /\ UNCHANGED <<pc, err>>
  /\ UNCHANGED <<args, TOKENS, lines_list, bas_file, prg_file, locals, err_line>>

\* the byte list returned as it is
with_terminator_missing(byte_list) == byte_list

\* line 290: the terminator appended to the byte list
with_terminator(byte_list) == Append(byte_list, 0)

\* lines 290-291: the text is exhausted: append the terminator and return
ScanEnd ==
  /\ pc = "scan"
  /\ ln = <<>>
  /\ bytes' = with_terminator(bytes)
  /\ pc' = "frame"
  /\ UNCHANGED <<args, TOKENS, lines_list, bas_file, prg_file, locals, ln,
                 in_quotes, in_remark, err, err_line>>

\* next_addr that counts the link field alone
next_addr_link_only(a, byte_list) == a + Len(byte_list) + 2

\* line 365: the address of the next line
next_addr(a, byte_list) == a + Len(byte_list) + 4

\* lines 365-377: frame the tokenized line and append it to out_list
Frame ==
  /\ pc = "frame"
  /\ addr' = next_addr(addr, bytes)
  /\ IF ~CanToBytes2(addr') \/ ~CanToBytes2(line_num)
     THEN /\ Fail("OverflowError")
          /\ UNCHANGED <<token_ln, out_list, idx>>
     ELSE /\ token_ln' = token_ln \o to_bytes2(addr') \o to_bytes2(line_num) \o bytes
          /\ out_list' = Append(out_list, token_ln')
          /\ idx' = idx + 1
          /\ pc' = "loop"
          /\ err' = err
  /\ UNCHANGED <<args, TOKENS, lines_list, bas_file, prg_file, line_num,
                 scanner, err_line>>

\* end_marker of one zero byte
end_marker_one_byte == <<0>>

\* line 379: the end marker appended after the last line
end_marker == <<0, 0>>

\* line 385: the index main() prints
PrintIndex == 561

\* lines 379-385: append the end marker, flatten, print
Finish ==
  /\ pc = "loop"
  /\ idx > Len(lines_list)
  /\ out_list' = join(Append(out_list, end_marker))
  /\ IF Len(out_list') <= PrintIndex
     THEN Fail("IndexError")
     ELSE pc' = "write_prg" /\ err' = err
  /\ UNCHANGED <<args, TOKENS, lines_list, bas_file, prg_file, addr, idx,
                 line_num, token_ln, scanner, err_line>>

\* lines 229-232: every element is written as one byte
CanWriteBinary(int_list) == \A j \in 1..Len(int_list) : int_list[j] \in 0..255

\* lines 386-395: write the binary file
WritePrg ==
  /\ pc = "write_prg"
  /\ \E exists \in BOOLEAN, answer \in Answers :
       IF ~exists \/ IsYes(answer)
       THEN IF CanWriteBinary(out_list)
            THEN /\ prg_file' = [written |-> TRUE, data |-> out_list]
                 /\ pc' = "done"
                 /\ err' = err
            ELSE /\ Fail("OverflowError")
                 /\ prg_file' = prg_file
       ELSE /\ Fail("NotOverwritten")
            /\ prg_file' = prg_file
  /\ UNCHANGED <<args, TOKENS, lines_list, bas_file, locals, scanner, err_line>>

Next ==
  \/ ReadFile
  \/ Normalize
  \/ WriteBas
  \/ SelectTokens
  \/ LineStart
  \/ ScanStep
  \/ ScanEnd
  \/ Frame
  \/ Finish
  \/ WritePrg

Spec == Init /\ [][Next]_vars

(***************************************************************************)
(* Properties                                                              *)
(***************************************************************************)

\* out_list still holds one framed line per element
InLoop == pc \in {"loop", "scan", "frame"}

\* the lines main() works on before normalization
InputLines == read_file(file)

\* how often the character c occurs in s
Count(c, s) == Cardinality({j \in 1..Len(s) : s[j] = c})

\* layout of framed line i of out_list: the file header precedes line 1 only
HeaderLen(i) == IF i = 1 THEN 2 ELSE 0

LinkOf(i) == out_list[i][HeaderLen(i) + 1] + 256 * out_list[i][HeaderLen(i) + 2]

TokLen(i) == Len(out_list[i]) - HeaderLen(i) - 4

\* sum over framed lines 1..i of 4 + the length of the tokenized bytes
RECURSIVE ChainSum(_)
ChainSum(i) == IF i = 0 THEN 0 ELSE ChainSum(i - 1) + 4 + TokLen(i)

\* C1: address chain.  The link field emitted for every framed line equals
\* the load address plus the sum, over the lines up to and including it, of
\* 4 + the length of the tokenized bytes (terminator included), which is the
\* address of the next line; the cursor after the last line is the address
\* of the end marker.
AddressChain ==
  InLoop =>
    /\ \A i \in 1..Len(out_list) : LinkOf(i) = load_addr + ChainSum(i)
    /\ (pc = "loop" => addr = load_addr + ChainSum(Len(out_list)))

\* two lines of different tokenized length are framed
AddressChainWitness ==
  /\ pc = "loop"
  /\ Len(out_list) = 2
  /\ idx > Len(lines_list)
  /\ TokLen(1) # TokLen(2)
  /\ LinkOf(2) > LinkOf(1)

\* out_list is the flat list of a program of at least one line (the flat list
\* of no line at all is the end marker alone)
FlatWithLines ==
  \/ pc \in {"write_prg", "done"}
  \/ pc = "failed" /\ err = "IndexError" /\ Len(out_list) > 2

\* C9: file header exactly once.  The load address, 2 bytes little-endian,
\* starts the first framed line and so the flat list; no later line is
\* prefixed with it, because the cursor has left the load address: it grows
\* by at least 5 with every framed line.  The flat list is as long as the
\* header, the framed lines the cursor has counted and the end marker.
HeaderOnce ==
  /\ pc \in {"scan", "frame"} =>
       token_ln = IF idx = 1 THEN <<load_addr % 256, load_addr \div 256>> ELSE <<>>
  /\ InLoop =>
       /\ addr >= load_addr + 5 * Len(out_list)
       /\ Len(out_list) = idx - 1
       /\ out_list # <<>> =>
            SubSeq(out_list[1], 1, 2) = <<load_addr % 256, load_addr \div 256>>
  /\ FlatWithLines =>
       /\ SubSeq(out_list, 1, 2) = <<load_addr % 256, load_addr \div 256>>
       /\ Len(out_list) = 2 + (addr - load_addr) + 2

\* a second line is being framed, without header
HeaderOnceWitness ==
  /\ pc = "frame"
  /\ idx = 2
  /\ token_ln = <<>>
  /\ SubSeq(out_list[1], 1, 2) = <<load_addr % 256, load_addr \div 256>>

\* a table byte 143 (the rem keyword) is among the bytes of the current line
RemEmitted == \E j \in 1..Len(bytes) : bytes[j] = 143

\* the mnemonic table entries the text s starts with
MnemonicsAt(s) ==
  {i \in 1..Len(PETCAT_TOKENS) :
     /\ Len(PETCAT_TOKENS[i].token) <= Len(s)
     /\ \A j \in 1..Len(PETCAT_TOKENS[i].token) : s[j] = PETCAT_TOKENS[i].token[j]}

\* the code point of c with a lowercase letter folded to uppercase
Literal(c) == IF c \in {Ascii[j] : j \in 66..91} THEN ord(c) - 32 ELSE ord(c)

\* C2: remark suppression.  Once byte 143 has been emitted in a line, the
\* scanner stays in the remark state until the line ends, and every later
\* step either replaces a control mnemonic by its table byte or emits the
\* next character as one literal byte: no keyword or operator is matched.
RemarkSuppression ==
  [][(pc = "scan" /\ RemEmitted) =>
       /\ in_remark /\ in_remark'
       /\ pc' \in {"scan", "frame"}
       /\ (ln # <<>> =>
             IF MnemonicsAt(ln) # {}
             THEN \E i \in MnemonicsAt(ln) :
                    /\ bytes' = Append(bytes, PETCAT_TOKENS[i].value)
                    /\ ln' = SubSeq(ln, Len(PETCAT_TOKENS[i].token) + 1, Len(ln))
             ELSE /\ bytes' = Append(bytes, Literal(ln[1]))
                  /\ ln' = Tail(ln))]_vars

\* after rem and a mnemonic, replaced by its byte, the text goes on with a
\* keyword
RemarkSuppressionWitness ==
  /\ pc = "scan"
  /\ in_remark
  /\ Len(bytes) = 2
  /\ bytes[1] = 143
  /\ \E i \in 1..Len(PETCAT_TOKENS) : bytes[2] = PETCAT_TOKENS[i].value
  /\ ln = <<"p", "r", "i", "n", "t">>

\* the statement text of the line scan_manager works on
StatementText == split_line_num(lines_list[idx]).line_txt

QuotesOdd == Count("\"", StatementText) % 2 = 1

\* the state of the lexer in the terms of the two flags
LexState ==
  IF in_remark THEN "IN_REMARK" ELSE IF in_quotes THEN "IN_QUOTE" ELSE "NORMAL"

\* C3 as stated: an even number of double quotes ends the line in NORMAL, an
\* odd number in IN_QUOTE.
QuoteToggleAsStated ==
  pc = "frame" => LexState = IF QuotesOdd THEN "IN_QUOTE" ELSE "NORMAL"

\* C3, amended: at the end of a line the in_quotes flag is the parity of the
\* number of double quotes of the statement; the line ends in NORMAL (even)
\* or IN_QUOTE (odd) when rem was not tokenized in it, and in IN_REMARK,
\* whatever the number of quotes, when it was.
QuoteToggle ==
  pc = "frame" =>
    /\ in_quotes = QuotesOdd
    /\ LexState = IF 143 \in {bytes[j] : j \in 1..Len(bytes)} THEN "IN_REMARK"
                  ELSE IF QuotesOdd THEN "IN_QUOTE" ELSE "NORMAL"

\* a statement with two quotes and no remark has been scanned
QuoteToggleWitness ==
  /\ pc = "frame"
  /\ Count("\"", StatementText) = 2
  /\ ~in_remark
  /\ ~in_quotes

\* position p of line holds a brace that belongs to no 4-character {XX}
\* placeholder
StrayBraceAt(line, p) ==
  /\ line[p] \in {"{", "}"}
  /\ ~(line[p] = "{" /\ MatchAt(line, p))
  /\ ~(line[p] = "}" /\ p >= 4 /\ MatchAt(line, p - 3))

HasStrayBrace(line) == \E p \in 1..Len(line) : StrayBraceAt(line, p)

\* the well-formed placeholders of line, as they stand in the text
Placeholders(line) == {SubSeq(line, p, p + 3) : p \in {q \in 1..Len(line) : MatchAt(line, q)}}

\* line holds a well-formed placeholder the translation table lacks
HasUnknownPlaceholder(line) ==
  \E item \in Placeholders(line) :
    \A i \in 1..Len(AHOY_TO_PETCAT) : AHOY_TO_PETCAT[i].key # upper(item)

\* the input lines with a stray brace, and the first of them
StrayLines ==
  {i \in 1..Len(InputLines) : \E line \in {InputLines[i]} : HasStrayBrace(line)}

FirstStray == CHOOSE i \in StrayLines : \A j \in StrayLines : i <= j

\* the state in which the normalization of ahoy input leaves the run: the
\* .bas file is written next, or the run has failed (for good)
Normalized == source = "ahoy" /\ pc \in {"write_bas", "failed"} /\ err # "IOError"

\* C4 as stated: a line with a brace outside a placeholder makes the
\* normalization of ahoy input fail with the loose brace error that reports
\* the first such line, before any output file is written.
UnbalancedBraceAsStated ==
  (Normalized /\ StrayLines # {}) =>
    /\ pc = "failed"
    /\ err = "LooseBrace"
    /\ err_line = InputLines[FirstStray]
    /\ ~bas_file.written
    /\ ~prg_file.written

\* C4, amended: with a stray brace in some line the conversion of ahoy input
\* fails in normalization, before any output file is written: with the
\* loose brace error reporting the first such line, unless a line before it
\* holds a well-formed placeholder that the translation table lacks, whose
\* lookup then fails first (KeyError).
UnbalancedBrace ==
  (Normalized /\ StrayLines # {}) =>
    /\ pc = "failed"
    /\ ~bas_file.written
    /\ ~prg_file.written
    /\ IF \E j \in 1..(FirstStray - 1) : HasUnknownPlaceholder(InputLines[j])
       THEN err = "KeyError"
       ELSE err = "LooseBrace" /\ err_line = InputLines[FirstStray]

\* the loose brace error reports the second line of the input
UnbalancedBraceWitness ==
  /\ source = "ahoy"
  /\ pc = "failed"
  /\ err = "LooseBrace"
  /\ Len(InputLines) = 2
  /\ err_line = InputLines[2]
  /\ err_line # InputLines[1]

\* the byte the mnemonic table defines for the canonical mnemonic canon
MnemonicByte(canon) ==
  PETCAT_TOKENS[CHOOSE i \in 1..Len(PETCAT_TOKENS) :
                  PETCAT_TOKENS[i].token = canon].value

\* the canonical form of the n-th placeholder of the current input line
CanonicalOf(n) ==
  LET item == upper(re_findall(InputLines[idx])[n])
  IN  AHOY_TO_PETCAT[CHOOSE i \in 1..Len(AHOY_TO_PETCAT) :
                       AHOY_TO_PETCAT[i].key = item].val

\* the placeholder the scanner has come to: those of the line less those
\* whose opening brace is still ahead, plus one
ReachedPlaceholder ==
  Len(re_findall(InputLines[idx])) - Count("{", ln) + 1

\* C5: mnemonic round trip.  In the scan of a normalized ahoy line, each
\* opening brace the scanner comes to starts the canonical form of the next
\* placeholder of the input line, and the step consumes exactly that
\* canonical form and emits exactly the byte the mnemonic table defines for
\* it, whatever precedes or follows, in or out of quotes and remarks.
MnemonicRoundTrip ==
  [][(pc = "scan" /\ source = "ahoy" /\ ln # <<>> /\ ln[1] = "{") =>
       /\ ReachedPlaceholder \in 1..Len(re_findall(InputLines[idx]))
       /\ pc' = "scan"
       /\ bytes' = Append(bytes, MnemonicByte(CanonicalOf(ReachedPlaceholder)))
       /\ ln' = SubSeq(ln, Len(CanonicalOf(ReachedPlaceholder)) + 1, Len(ln))]_vars

\* a placeholder inside a quoted string inside a remark has become its byte
MnemonicRoundTripWitness ==
  /\ pc = "scan"
  /\ source = "ahoy"
  /\ in_quotes
  /\ in_remark
  /\ ln = <<>>
  /\ Len(re_findall(InputLines[idx])) = 1
  /\ bytes = <<143, 34, MnemonicByte(CanonicalOf(1))>>

\* the text of line, stripped of leading whitespace, starts with no digit
NoLeadingDigit(line) ==
  LET s == lstrip(line) IN s = <<>> \/ s[1] \notin {Ascii[j] : j \in 17..26}

\* C6: a line without leading digits splits, without failure, into line
\* number 0 and its whole text, stripped of leading whitespace.
SplitWithoutDigits ==
  (pc = "loop" /\ idx <= Len(lines_list) /\ NoLeadingDigit(lines_list[idx])) =>
    split_line_num(lines_list[idx]) =
      [kind |-> "ok", line_num |-> 0, line_txt |-> lstrip(lines_list[idx])]

\* C7: with a version that has no keyword table the conversion fails before
\* any line is tokenized: scan_manager is never entered and no line is
\* framed.
UnsupportedVersionFatal ==
  version # "2" => pc \notin {"scan", "frame", "write_prg", "done"}

\* C8: no partial success: a failure raised in line splitting, tokenization
\* or framing (a missing line number, a missing keyword table, a value beyond
\* 16 bits) leaves no output file written.
NoPartialSuccess ==
  (pc = "failed" /\ err \in {"ValueError", "NameError", "OverflowError"}) =>
    ~bas_file.written /\ ~prg_file.written

\* no input line holds a brace outside a placeholder
OnlyPlaceholders ==
  \A input \in {InputLines} : \A i \in 1..Len(input) :
    \A line \in {input[i]} : ~HasStrayBrace(line)

\* every placeholder of the input is in the translation table
AllPlaceholdersKnown ==
  \A input \in {InputLines} : \A i \in 1..Len(input) :
    \A line \in {input[i]} : ~HasUnknownPlaceholder(line)

NormalizationFailed == pc = "failed" /\ err \in {"LooseBrace", "KeyError"}

\* C10 as stated: ahoy input with correctly paired placeholders only is
\* normalized successfully, and the result holds no brace.
BalancedBraceAsStated ==
  (Normalized /\ OnlyPlaceholders) =>
    /\ ~NormalizationFailed
    /\ \A i \in 1..Len(lines_list) :
         Count("{", lines_list[i]) = 0 /\ Count("}", lines_list[i]) = 0

\* position p of line starts, or ends, an entry of the mnemonic table
StartsMnemonic(line, p) ==
  \E i \in 1..Len(PETCAT_TOKENS) :
    /\ p + Len(PETCAT_TOKENS[i].token) - 1 <= Len(line)
    /\ SubSeq(line, p, p + Len(PETCAT_TOKENS[i].token) - 1) = PETCAT_TOKENS[i].token

EndsMnemonic(line, p) ==
  \E i \in 1..Len(PETCAT_TOKENS) :
    /\ p - Len(PETCAT_TOKENS[i].token) + 1 >= 1
    /\ SubSeq(line, p - Len(PETCAT_TOKENS[i].token) + 1, p) = PETCAT_TOKENS[i].token

\* C10, amended: ahoy input with correctly paired placeholders only, each of
\* them in the translation table, is normalized successfully, and the result
\* holds no stray brace: it has as many lines as the input, and in each line
\* one opening and one closing brace for every placeholder of the input
\* line, each the first or last character of a canonical mnemonic of the
\* mnemonic table.
BalancedBrace ==
  (Normalized /\ OnlyPlaceholders /\ AllPlaceholdersKnown) =>
    /\ ~NormalizationFailed
    /\ Len(lines_list) = Len(InputLines)
    /\ \A i \in 1..Len(lines_list) :
         \A new_line \in {lines_list[i]}, n \in {Len(re_findall(InputLines[i]))} :
           /\ Count("{", new_line) = n
           /\ Count("}", new_line) = n
           /\ \A p \in 1..Len(new_line) :
                /\ new_line[p] = "{" => StartsMnemonic(new_line, p)
                /\ new_line[p] = "}" => EndsMnemonic(new_line, p)

\* a line with two placeholders has been normalized
BalancedBraceWitness ==
  /\ source = "ahoy"
  /\ pc = "write_bas"
  /\ Len(lines_list) = 1
  /\ Len(re_findall(InputLines[1])) = 2
  /\ Count("{", lines_list[1]) = 2

\* out_list is the flat list: Finish has run (a run that fails in Normalize
\* with the same error leaves out_list empty)
Flat ==
  \/ pc \in {"write_prg", "done"}
  \/ pc = "failed" /\ err = "IndexError" /\ out_list # <<>>

\* C11: end marker.  The flat list of every program, of no line or more, ends
\* with the two bytes 0, 0; they are emitted once, after the last framed
\* line: the flat list is as long as the header (of a program with lines),
\* the framed lines the cursor has counted and these two bytes, and the byte
\* before them is the terminator 0 of the last line.
EndMarker ==
  Flat =>
    /\ Len(out_list) >= 2
    /\ SubSeq(out_list, Len(out_list) - 1, Len(out_list)) = <<0, 0>>
    /\ Len(out_list) = (IF lines_list = <<>> THEN 0 ELSE 2) + (addr - load_addr) + 2
    /\ lines_list # <<>> => out_list[Len(out_list) - 2] = 0

\* the flat list of a program of two lines is assembled
EndMarkerWitness ==
  /\ Flat
  /\ Len(lines_list) = 2
  /\ Len(out_list) > 12

\* the entries of table that the text s starts with
PrefixEntries(table, s) ==
  {i \in 1..Len(table) : startswith(s, table[i].token)}

\* the longest of the entries hits of table
Longest(table, hits) ==
  CHOOSE i \in hits : \A j \in hits : Len(table[j].token) <= Len(table[i].token)

\* no entry of table is a strict prefix of an entry declared after it
PrefixSafe(table) ==
  \A j \in 1..Len(table) : \A i \in 1..(j - 1) :
    startswith(table[j].token, table[i].token) => table[i].token = table[j].token

\* in neither table is an entry a strict prefix of an entry declared after it
TablesPrefixSafe == PrefixSafe(PETCAT_TOKENS) /\ PrefixSafe(CORE_TOKENS)

\* what scan returns at the current position is the entry e of table
Returns(table, e) ==
  \A r \in {scan(ln, tokenize_of(in_quotes, in_remark), TOKENS)} :
    /\ r.kind = "ok"
    /\ r.byte = table[e].value
    /\ Len(ln) - Len(r.rest) = Len(table[e].token)

\* C12: maximal munch by table order.  At every position of a statement text
\* scan returns the longest mnemonic the rest of the text starts with; with
\* no mnemonic there, and when tokenizing with the version-2 table, the
\* longest keyword the rest starts with; and in neither table is an entry a
\* strict prefix of an entry declared after it (a fact of the tables alone,
\* evaluated where main is about to bind the table).
MaximalMunch ==
  /\ pc = "select_tokens" => TablesPrefixSafe
  /\ (pc = "scan" /\ ln # <<>>) =>
       \A ps \in {PrefixEntries(PETCAT_TOKENS, ln)} :
         IF ps # {}
         THEN Returns(PETCAT_TOKENS, Longest(PETCAT_TOKENS, ps))
         ELSE (tokenize_of(in_quotes, in_remark) /\ TOKENS = "CORE_TOKENS") =>
                \A cs \in {PrefixEntries(CORE_TOKENS, ln)} :
                  cs # {} => Returns(CORE_TOKENS, Longest(CORE_TOKENS, cs))

\* scan is about to match goto, which starts with the later entry go
MaximalMunchWitness ==
  /\ pc = "scan"
  /\ ln = <<"g", "o", "t", "o">>
  /\ TOKENS = "CORE_TOKENS"
  /\ tokenize_of(in_quotes, in_remark)
  /\ Cardinality(PrefixEntries(CORE_TOKENS, ln)) = 2

(***************************************************************************)
(* Several conversions in one process: main() is called again after a     *)
(* conversion has ended.  The module global TOKENS outlives the call;     *)
(* every local of main starts afresh.                                     *)
(***************************************************************************)
MainAgain ==
  /\ pc \in {"done", "failed"}
  /\ file' \in {<<l>> : l \in SmallLines}
  /\ source' \in Sources
  /\ version' \in Versions
  /\ load_addr' = 2049
  /\ pc' = "read_file"
  /\ lines_list' = <<>>
  /\ bas_file' = [written |-> FALSE, lines |-> <<>>]
  /\ prg_file' = [written |-> FALSE, data |-> <<>>]
  /\ addr' = 0
  /\ out_list' = <<>>
  /\ idx' = 0
  /\ line_num' = 0
  /\ token_ln' = <<>>
  /\ ln' = <<>>
  /\ in_quotes' = FALSE
  /\ in_remark' = FALSE
  /\ bytes' = <<>>
  /\ err' = ""
  /\ err_line' = <<>>
  /\ UNCHANGED TOKENS

NextProcess ==
  \/ ReadFile
  \/ Normalize
  \/ WriteBas
  \/ SelectTokens
  \/ LineStart
  \/ ScanStep
  \/ ScanEnd
  \/ Frame
  \/ Finish
  \/ WritePrg
  \/ MainAgain

SpecProcess == Init /\ [][NextProcess]_vars

\* C13: no silent table fallback across conversions.  In a conversion
\* requested with a version other than 2, no scan step matches an entry of
\* the version-2 keyword table: a step that goes on scanning replaces a
\* control mnemonic or emits the next character as one literal byte,
\* whatever the conversions run before it in the process.
NoTableFallback ==
  [][(version # "2" /\ pc = "scan" /\ ln # <<>> /\ pc' = "scan") =>
       IF MnemonicsAt(ln) # {}
       THEN \E i \in MnemonicsAt(ln) :
              /\ bytes' = Append(bytes, PETCAT_TOKENS[i].value)
              /\ ln' = SubSeq(ln, Len(PETCAT_TOKENS[i].token) + 1, Len(ln))
       ELSE /\ bytes' = Append(bytes, Literal(ln[1]))
            /\ ln' = Tail(ln)]_vars

\* the bytes emitted so far hold an odd number of double quotes: the scanner
\* is inside an open string
InOpenString == Count(34, bytes) % 2 = 1

\* C14: quoted-string lexing.  Inside an open double-quoted string every scan
\* step replaces a control mnemonic by its table byte or emits the next
\* character as one byte, a lowercase letter as its uppercase code point and
\* any other character unchanged: no keyword or operator is matched.  Once
\* the closing quote is emitted, and if rem has not been tokenized, a keyword
\* or operator of the version-2 table at the current position is matched
\* again.
QuotedString ==
  [][(pc = "scan" /\ ln # <<>> /\ TOKENS = "CORE_TOKENS") =>
       /\ in_quotes = InOpenString
       /\ pc' = "scan"
       /\ IF MnemonicsAt(ln) # {}
          THEN \E i \in MnemonicsAt(ln) :
                 /\ bytes' = Append(bytes, PETCAT_TOKENS[i].value)
                 /\ ln' = SubSeq(ln, Len(PETCAT_TOKENS[i].token) + 1, Len(ln))
          ELSE IF InOpenString
          THEN /\ bytes' = Append(bytes, Literal(ln[1]))
               /\ ln' = Tail(ln)
          ELSE (~RemEmitted /\ PrefixEntries(CORE_TOKENS, ln) # {}) =>
                 \E i \in PrefixEntries(CORE_TOKENS, ln) :
                   /\ bytes' = Append(bytes, CORE_TOKENS[i].value)
                   /\ ln' = SubSeq(ln, Len(CORE_TOKENS[i].token) + 1, Len(ln))]_vars

\* the string "+print{clr}" has been lexed byte by byte, the mnemonic
\* replaced, and the operator after the closing quote matched
QuotedStringWitness ==
  /\ pc = "scan"
  /\ bytes = <<34, 43, 80, 82, 73, 78, 84, 147, 34, 170>>
  /\ ln = <<"p", "r", "i", "n", "t">>
  /\ ~in_quotes

\* lines 278-291: scan_manager on the text s alone, from the flags quotes and
\* remark, with the global TOKENS bound as tokens; a NameError ends the list
\* without the terminator
RECURSIVE scan_manager_from(_, _, _, _)
scan_manager_from(s, quotes, remark, tokens) ==
  IF s = <<>> THEN <<0>>
  ELSE LET r == scan(s, tokenize_of(quotes, remark), tokens)
       IN  IF r.kind = "NameError" THEN <<>>
           ELSE <<r.byte>> \o scan_manager_from(r.rest, quotes_after(quotes, r.byte),
                                               remark_after(remark, r.byte), tokens)

scan_manager(s, tokens) == scan_manager_from(s, FALSE, FALSE, tokens)

\* C15: lexer state is per line.  Every line starts with both flags off, and
\* the bytes produced for a line of a program are those scan_manager gives
\* for the statement text of that line alone: a remark or an unclosed quote
\* of the lines before changes nothing.  (The comparison is made for every
\* line shorter than the long line, which is always alone in its program.)
LexerPerLine ==
  /\ (pc = "scan" /\ bytes = <<>>) => (~in_quotes /\ ~in_remark)
  /\ (pc = "frame" /\ Len(bytes) <= LongLen) =>
       bytes = scan_manager(StatementText, TOKENS)

\* after a line that leaves a quote open, the keyword of the second line is
\* tokenized
LexerPerLineWitness ==
  /\ pc = "frame"
  /\ idx = 2
  /\ lines_list[1] = <<"5", "\"">>
  /\ lines_list[2] = <<"1", "r", "e", "m">>
  /\ bytes = <<143, 0>>

\* C16: the lexer terminates with one terminator.  Every scan step consumes
\* at least one character for the byte it emits, so the bytes emitted and
\* the characters left never exceed the statement text, and no byte emitted
\* for a character is 0; the list scan_manager returns, for the empty text
\* too, has between 1 and len(text) + 1 bytes and its only 0 is its last
\* byte.
LexerTerminates ==
  /\ [](pc = "scan" =>
         /\ Len(bytes) + Len(ln) <= Len(StatementText)
         /\ Count(0, bytes) = 0)
  /\ [](pc = "frame" =>
         /\ Len(bytes) >= 1
         /\ Len(bytes) <= Len(StatementText) + 1
         /\ bytes[Len(bytes)] = 0
         /\ Count(0, bytes) = 1)
  /\ [][(pc = "scan" /\ pc' = "scan") =>
          (Len(ln') < Len(ln) /\ Len(bytes') = Len(bytes) + 1)]_vars

\* scan_manager returns the terminator alone for the empty statement
LexerTerminatesWitness ==
  /\ pc = "frame"
  /\ StatementText = <<>>
  /\ bytes = <<0>>

\* C17: a successful conversion writes the binary.  When every line of a
\* program of one line or more has been normalized, split, tokenized and
\* framed and no overwrite was declined, the run does not fail before the
\* binary write, whatever the size of the flat stream; and the content
\* written is the flat stream.
ConversionWritesBinary ==
  /\ (pc = "failed" /\ lines_list # <<>> /\ idx > Len(lines_list)) =>
       err = "NotOverwritten"
  /\ pc = "done" => (prg_file.written /\ prg_file.data = out_list)

\* line read from left to right, every well-formed placeholder replaced by
\* the canonical mnemonic of its uppercased text, every other character kept
RECURSIVE Substituted(_)
Substituted(line) ==
  IF line = <<>> THEN <<>>
  ELSE IF MatchAt(line, 1)
  THEN Lookup(upper(SubSeq(line, 1, 4))) \o Substituted(SubSeq(line, 5, Len(line)))
  ELSE <<line[1]>> \o Substituted(Tail(line))

\* C18: normalizer reassembly.  For ahoy input whose lines hold well-formed,
\* known placeholders only and no stray brace, the normalizer returns a list and
\* every normalized line is its input line with the literal segments
\* unchanged and in order and each placeholder replaced, in place, by the
\* canonical mnemonic of its uppercased text; a line with no placeholder is
\* returned unchanged.
NormalizerReassembly ==
  (Normalized /\ OnlyPlaceholders /\ AllPlaceholdersKnown) =>
    /\ ~NormalizationFailed
    /\ Len(lines_list) = Len(InputLines)
    /\ \A i \in 1..Len(lines_list) :
         \A new_line \in {lines_list[i]}, line \in {InputLines[i]} :
           /\ new_line = Substituted(line)
           /\ re_findall(line) = <<>> => new_line = line

\* a placeholder between two literal segments has been replaced in place
NormalizerReassemblyWitness ==
  /\ source = "ahoy"
  /\ pc = "write_bas"
  /\ InputLines = << <<"1", "r", "e", "m", "{", "s", "c", "}", "p", "r", "i", "n", "t">> >>
  /\ lines_list = << <<"1", "r", "e", "m", "{", "c", "l", "r", "}", "p", "r", "i", "n", "t">> >>

LineNumOf(i) == out_list[i][HeaderLen(i) + 3] + 256 * out_list[i][HeaderLen(i) + 4]

\* C19: 16-bit fields never wrap.  The two bytes of every link field and of
\* every line-number field emitted are bytes, and they encode the cursor and
\* the parsed line number themselves, which are within 0..65535; a line whose
\* cursor or line number is beyond that is not framed: the conversion fails
\* there with OverflowError, the lines before it framed and nothing after.
NoWrap ==
  /\ InLoop =>
       \A i \in 1..Len(out_list) :
         /\ \A k \in 1..4 : out_list[i][HeaderLen(i) + k] \in 0..255
         /\ LinkOf(i) = load_addr + ChainSum(i)
         /\ LineNumOf(i) = split_line_num(lines_list[i]).line_num
         /\ LinkOf(i) \in 0..65535 /\ LineNumOf(i) \in 0..65535
  /\ (pc = "loop" /\ out_list # <<>>) => (addr <= 65535 /\ line_num <= 65535)
  /\ (pc = "failed" /\ err = "OverflowError") =>
       /\ addr > 65535 \/ line_num > 65535
       /\ Len(out_list) = idx - 1

\* the second line has a number beyond 16 bits: the conversion has failed
\* there, after framing the first
NoWrapWitness ==
  /\ pc = "failed"
  /\ err = "OverflowError"
  /\ line_num = 70000
  /\ idx = 2
  /\ Len(out_list) = 1
  /\ LineNumOf(1) = 1

\* the run of the example: the line  10 print "hi"  alone, pet dialect,
\* version 2, load address 0x0801, its statement lexed
ExampleLexed ==
  /\ file = <<ExampleLine>>
  /\ source = "pet"
  /\ version = "2"
  /\ load_addr = 2049
  /\ pc = "frame"

\* C20 as stated: the example line splits to line number 10 and its
\* statement lexes to 153, the quote, H, I, the quote, 0.
SpecExampleAsStated ==
  ExampleLexed => (line_num = 10 /\ bytes = <<153, 34, 72, 73, 34, 0>>)

\* C20: the example line splits to line number 10 and the statement
\* print "hi", which lexes to 153 for print, 32 for the space that follows
\* it, the quote, H, I, the quote and the terminator 0.
SpecExample ==
  ExampleLexed =>
    /\ line_num = 10
    /\ StatementText = <<"p", "r", "i", "n", "t", " ", "\"", "h", "i", "\"">>
    /\ bytes = <<153, 32, 34, 72, 73, 34, 0>>

\* the statement of the example has been lexed to seven bytes
SpecExampleWitness ==
  /\ ExampleLexed
  /\ Len(bytes) = 7
  /\ in_quotes = FALSE

====
